---- MODULE Spec2Model ----
(***************************************************************************)
(* Model of the fund reconciliation / reinvestment / comparison code of    *)
(* fund_fetcher (src/portfolio-compare.js, src/index.html), of its         *)
(* distribution processor (src/process-distributions.js,                   *)
(* src/unnamed/part_000) and of its NAV fetcher                            *)
(* (src/fund-data-fetcher.js).                                             *)
(*                                                                         *)
(* src/portfolio-compare.js holds three generations of the engine:         *)
(*   - the PortfolioCompare IIFE (lines 9-332); its members are modelled   *)
(*     with the prefix PC_;                                                *)
(*   - calculatePortfolioPerformance (lines 339-410), which reads the      *)
(*     global mergedFundData;                                              *)
(*   - the comparison module (lines 448-880) and the page script           *)
(*     (lines 1264-1668) that feeds it.                                    *)
(*                                                                         *)
(* Specifications: SpecRec (one instrument, reconciliation and             *)
(* simulation), SpecCmp (three funds, comparison), SpecAgg (repeated       *)
(* calls of PortfolioCompare.calculatePortfolios), SpecLoad (the page's    *)
(* load callbacks in every interleaving), SpecFile (requests for           *)
(* distribution data), SpecSum (summarizePortfolio over series of several  *)
(* days) and SpecFetch (fetchWithProxy walking the proxy list).            *)
(*                                                                         *)
(* Numbers are exact rationals <<n, d>> with d > 0.  The non-finite        *)
(* results a JavaScript division can give are kept as values: <<1, 0>> is  *)
(* Infinity, <<-1, 0>> is -Infinity, <<0, 0>> is NaN; <<0, -1>> is         *)
(* null/undefined.  Dates are ISO strings 'YYYY-MM-DD' in the code; the    *)
(* model numbers the days 1, 2, ... so that string order, Date order and   *)
(* integer order agree.                                                    *)
(***************************************************************************)
EXTENDS Integers, Sequences, FiniteSets, TLC

\* ------------------------------------------------------------------ bounds
\* days of the calendar in the single-instrument specification
MaxDate == 3
\* longest NAV series / distribution series in the single-instrument spec
MaxLen == 2
\* days of the calendar in the three-fund comparison specification
MaxCmpDate == 3

\* days of the calendar in the two-fund aggregation specification
MaxAggDate == 2
\* calls of PortfolioCompare.calculatePortfolios in one behaviour
MaxCalls == 2
\* days of the calendar of a portfolio summarized on its own: spans of up
\* to MaxSumDate - 1 days
MaxSumDate == 9
\* most daily values of a portfolio summarized on its own
MaxSumLen == 3

\* --------------------------------------------------------------- numbers
Null == <<0, -1>>
NaN == <<0, 0>>

Abs(x) == IF x < 0 THEN -x ELSE x

RECURSIVE GCD(_, _)
GCD(a, b) == IF b = 0 THEN a ELSE GCD(b, a % b)

Sgn(x) == IF x > 0 THEN 1 ELSE IF x < 0 THEN -1 ELSE 0

\* the number n/d in lowest terms; a zero denominator gives +-Infinity or NaN
Norm(n, d) ==
    IF d = 0 THEN <<Sgn(n), 0>>
    ELSE LET g == GCD(Abs(n), Abs(d))
             s == IF d < 0 THEN -1 ELSE 1
         IN  <<(s * n) \div g, (s * d) \div g>>

Num(n) == <<n, 1>>

\* JavaScript ToNumber of a value used in arithmetic: null counts as 0
ToNum(x) == IF x = Null THEN <<0, 1>> ELSE x

RMul(x, y) ==
    LET a == ToNum(x)
        b == ToNum(y)
    IN  IF a = NaN \/ b = NaN THEN NaN
        ELSE IF a[2] = 0 \/ b[2] = 0 THEN <<Sgn(a[1]) * Sgn(b[1]), 0>>
        ELSE LET g1 == GCD(Abs(a[1]), b[2])
                 g2 == GCD(Abs(b[1]), a[2])
             IN  Norm((a[1] \div g1) * (b[1] \div g2),
                      (a[2] \div g2) * (b[2] \div g1))

RDiv(x, y) ==
    LET a == ToNum(x)
        b == ToNum(y)
    IN  IF a = NaN \/ b = NaN THEN NaN
        ELSE IF a[2] = 0 /\ b[2] = 0 THEN NaN
        ELSE IF a[2] = 0 THEN <<a[1] * (IF b[1] < 0 THEN -1 ELSE 1), 0>>
        ELSE IF b[2] = 0 THEN <<0, 1>>
        ELSE IF b[1] = 0 THEN <<Sgn(a[1]), 0>>
        ELSE RMul(a, Norm(b[2], b[1]))

RAdd(x, y) ==
    LET a == ToNum(x)
        b == ToNum(y)
    IN  IF a = NaN \/ b = NaN THEN NaN
        ELSE IF a[2] = 0 /\ b[2] = 0 THEN (IF a = b THEN a ELSE NaN)
        ELSE IF a[2] = 0 THEN a
        ELSE IF b[2] = 0 THEN b
        ELSE LET g == GCD(a[2], b[2])
                 l == (a[2] \div g) * b[2]
             IN  Norm(a[1] * (l \div a[2]) + b[1] * (l \div b[2]), l)

RNeg(x) == LET a == ToNum(x) IN <<-a[1], a[2]>>

RSub(x, y) == RAdd(x, RNeg(y))

\* x < y as JavaScript compares numbers (false whenever NaN is involved)
RLt(x, y) ==
    LET a == ToNum(x)
        b == ToNum(y)
    IN  IF a = NaN \/ b = NaN THEN FALSE
        ELSE IF a[2] = 0 /\ b[2] = 0 THEN a[1] < b[1]
        ELSE IF a[2] = 0 THEN a[1] < 0
        ELSE IF b[2] = 0 THEN b[1] > 0
        ELSE RSub(a, b)[1] < 0

RLe(x, y) == RLt(x, y) \/ (ToNum(x) = ToNum(y) /\ ToNum(x) # NaN)

\* the test `x > 0`
GtZero(x) == RLt(Num(0), x)

\* JavaScript truthiness of a number-or-null value
Truthy(x) == x # Null /\ x # NaN /\ ~(x[2] > 0 /\ x[1] = 0)

\* ------------------------------------------------------------- sequences
Range(s) == {s[i] : i \in 1..Len(s)}

RECURSIVE SeqMap(_, _)
\* the dates of the items of a series from index i on, in series order
SeqMap(s, i) == IF i > Len(s) THEN <<>> ELSE <<s[i].date>> \o SeqMap(s, i + 1)

DatesOf(s) == SeqMap(s, 1)

DateSet(s) == {s[i].date : i \in 1..Len(s)}

RECURSIVE Dedup(_)
\* [...new Set(list)]: the first occurrence of every element, in list order
Dedup(l) ==
    IF l = <<>> THEN <<>>
    ELSE LET r == Dedup(SubSeq(l, 1, Len(l) - 1))
             x == l[Len(l)]
         IN  IF x \in Range(r) THEN r ELSE Append(r, x)

RECURSIVE InsertAsc(_, _)
InsertAsc(sorted, x) ==
    IF sorted = <<>> THEN <<x>>
    ELSE IF x < sorted[1] THEN <<x>> \o sorted
    ELSE <<sorted[1]>> \o InsertAsc(Tail(sorted), x)

RECURSIVE SortDatesAsc(_)
\* dates.sort(): ascending (ISO strings sort chronologically); stable
SortDatesAsc(l) ==
    IF l = <<>> THEN <<>>
    ELSE InsertAsc(SortDatesAsc(SubSeq(l, 1, Len(l) - 1)), l[Len(l)])

Reverse(l) == [i \in 1..Len(l) |-> l[Len(l) + 1 - i]]

RECURSIVE InsertByDate(_, _)
InsertByDate(sorted, x) ==
    IF sorted = <<>> THEN <<x>>
    ELSE IF x.date < sorted[1].date THEN <<x>> \o sorted
    ELSE <<sorted[1]>> \o InsertByDate(Tail(sorted), x)

\* a sort that leaves the series in the order it was given
SortByDate_AsGiven(s) == s

RECURSIVE SortByDate(_)
\* arr.sort((a, b) => new Date(a.date) - new Date(b.date)): ascending, stable
SortByDate(s) ==
    IF s = <<>> THEN <<>>
    ELSE InsertByDate(SortByDate(SubSeq(s, 1, Len(s) - 1)), s[Len(s)])

\* byDate[date] of a map filled by forEach(item => byDate[item.date] = ...):
\* the index of the last item of that date, 0 when the key is missing
LastIdx(s, d) ==
    LET I == {i \in 1..Len(s) : s[i].date = d}
    IN  IF I = {} THEN 0 ELSE CHOOSE i \in I : \A j \in I : j <= i

HasDate(s, d) == LastIdx(s, d) # 0

\* ------------------------------------------------------ program constants
Tickers == {"AFAXX", "AGTHX", "ANCFX"}

\* INITIAL_HOLDINGS of the PortfolioCompare IIFE: 77650.78, 104.855, 860.672
INITIAL_HOLDINGS ==
    [AFAXX |-> <<3882539, 50>>, AGTHX |-> <<20971, 200>>, ANCFX |-> <<107584, 125>>]

\* the holdings calculatePortfolioPerformance starts from (the same numbers)
PerfHoldings == INITIAL_HOLDINGS

\* ------------------------------------------------------------ reconcilers
\* navByDate[date] of the NAV series (undefined is modelled as Null)
NavByDate(navData, d) ==
    IF HasDate(navData, d) THEN navData[LastIdx(navData, d)].nav ELSE Null

\* the page's reconciler dividing by the NAV-series price of the date
\* instead of the distribution record's own nav
mergeNavAndDistributions_SeriesPrice(navData, distributionData, ticker) ==
    LET allDates == Reverse(SortDatesAsc(
                        Dedup(Dedup(DatesOf(navData)) \o Dedup(DatesOf(distributionData)))))
        NavValue(d) == IF Truthy(NavByDate(navData, d)) THEN NavByDate(navData, d) ELSE Null
        HasDist(d) == HasDate(distributionData, d)
        Dist(d) == distributionData[LastIdx(distributionData, d)]
        Price(d) == IF NavValue(d) # Null THEN NavValue(d) ELSE Dist(d).nav
    IN  [i \in 1..Len(allDates) |->
            LET d == allDates[i]
            IN  [date |-> d,
                 nav |-> IF ticker = "AFAXX" THEN Num(1) ELSE NavValue(d),
                 distRatio |-> IF HasDist(d) THEN RDiv(Dist(d).dist, Price(d)) ELSE Num(0),
                 distribution |-> IF HasDist(d) THEN Dist(d).dist ELSE Num(0)]]

\* the page's reconciler: newest first, nav forced to 1.00 for AFAXX,
\* no fallback to the distribution record's nav
mergeNavAndDistributions(navData, distributionData, ticker) ==
    LET allDates == Reverse(SortDatesAsc(
                        Dedup(Dedup(DatesOf(navData)) \o Dedup(DatesOf(distributionData)))))
        NavValue(d) == IF Truthy(NavByDate(navData, d)) THEN NavByDate(navData, d) ELSE Null
        HasDist(d) == HasDate(distributionData, d)
        Dist(d) == distributionData[LastIdx(distributionData, d)]
    IN  [i \in 1..Len(allDates) |->
            LET d == allDates[i]
            IN  [date |-> d,
                 nav |-> IF ticker = "AFAXX" THEN Num(1) ELSE NavValue(d),
                 distRatio |-> IF HasDist(d) THEN RDiv(Dist(d).dist, Dist(d).nav) ELSE Num(0),
                 distribution |-> IF HasDist(d) THEN Dist(d).dist ELSE Num(0)]]

\* the IIFE's reconciler: dates in first-insertion order (NAV keys, then
\* distribution keys), nav falls back to the distribution record's nav
PC_mergeNavAndDistributions(navData, distData) ==
    LET allDates == Dedup(Dedup(DatesOf(navData)) \o Dedup(DatesOf(distData)))
        HasDist(d) == HasDate(distData, d)
        Dist(d) == distData[LastIdx(distData, d)]
        Ratio(d) == RDiv(Dist(d).dist, Dist(d).nav)
    IN  [i \in 1..Len(allDates) |->
            LET d == allDates[i]
            IN  [date |-> d,
                 nav |-> IF NavByDate(navData, d) # Null THEN NavByDate(navData, d)
                         ELSE IF HasDist(d) THEN Dist(d).nav
                         ELSE Null,
                 distRatio |-> IF HasDist(d) /\ Truthy(Ratio(d)) THEN Ratio(d) ELSE Num(0)]]

\* mergedData.filter(item => item.nav !== null && item.nav !== undefined)
FilterMissingNav(mergedData) == SelectSeq(mergedData, LAMBDA item : item.nav # Null)

\* prepareTimeSeries without its sort
prepareTimeSeries_NoSort(data) == data

prepareTimeSeries(data) == IF Len(data) = 0 THEN <<>> ELSE SortByDate(data)

\* data.filter(item => new Date(item.date) >= new Date(startDate))
FromStartDate(data, start) == SelectSeq(data, LAMBDA item : item.date >= start)

\* reinvestment that credits the ratio itself instead of units * ratio
Reinvest_AddRatio(units, distRatio) ==
    IF GtZero(distRatio) THEN RAdd(units, distRatio) ELSE units

\* units after the reinvestment of one day: units += units * distRatio
Reinvest(units, distRatio) ==
    IF GtZero(distRatio) THEN RAdd(units, RMul(units, distRatio)) ELSE units

\* ((value - initialValue) / initialValue) * 100
ChangeFromStart(value, initialValue) ==
    RMul(RDiv(RSub(value, initialValue), initialValue), Num(100))

\* -------------------------------------------- simulation, comparison module
RECURSIVE MMFDailyValues(_, _, _, _)
\* the forEach of calculateMMFPortfolio from item i on, holding `units`
MMFDailyValues(filteredData, i, units, initialValue) ==
    IF i > Len(filteredData) THEN <<>>
    ELSE LET item == filteredData[i]
             u == Reinvest(units, item.distRatio)
             dailyValue == RMul(u, item.nav)
         IN  <<[date |-> item.date, units |-> u, nav |-> item.nav, value |-> dailyValue,
                changeFromStart |-> ChangeFromStart(dailyValue, initialValue)]>>
             \o MMFDailyValues(filteredData, i + 1, u, initialValue)

calculateMMFPortfolio(mmfData, initialUnits, startDate) ==
    LET filteredData == FromStartDate(mmfData, startDate)
        dv == IF Len(filteredData) = 0 THEN <<>>
              ELSE MMFDailyValues(filteredData, 1, initialUnits,
                                  RMul(initialUnits, filteredData[1].nav))
    IN  [initialUnits |-> initialUnits,
         initialDate |-> startDate,
         currentUnits |-> IF dv = <<>> THEN initialUnits ELSE dv[Len(dv)].units,
         dailyValues |-> dv]

\* ----------------------------------------------------- simulation, IIFE
RECURSIVE PC_DailyValues(_, _, _, _)
\* the forEach of PortfolioCompare.calculateMMFPortfolio (fixed = TRUE, nav
\* is the constant 1.00) and of calculateMutualFundComponent (fixed = FALSE,
\* whose points name the field `shares`; the model says `units` for both)
PC_DailyValues(mergedData, i, units, fixed) ==
    IF i > Len(mergedData) THEN <<>>
    ELSE LET dayData == mergedData[i]
             nav == IF fixed THEN Num(1) ELSE dayData.nav
             u == Reinvest(units, dayData.distRatio)
         IN  <<[date |-> dayData.date, nav |-> nav, units |-> u,
                value |-> RMul(u, nav), distRatio |-> dayData.distRatio]>>
             \o PC_DailyValues(mergedData, i + 1, u, fixed)

\* the IIFE's MMF simulation taking the nav of the merged point, not 1.00
PC_calculateMMFPortfolio_SeriesNav(fd) ==
    PC_DailyValues(SortByDate(PC_mergeNavAndDistributions(fd.nav, fd.distributions)),
                   1, INITIAL_HOLDINGS.AFAXX, FALSE)

PC_calculateMMFPortfolio(fd) ==
    PC_DailyValues(SortByDate(PC_mergeNavAndDistributions(fd.nav, fd.distributions)),
                   1, INITIAL_HOLDINGS.AFAXX, TRUE)

PC_calculateMutualFundComponent(fd, ticker) ==
    PC_DailyValues(SortByDate(PC_mergeNavAndDistributions(fd.nav, fd.distributions)),
                   1, INITIAL_HOLDINGS[ticker], FALSE)

\* --------------------------------------------- aggregation, comparison module
\* getAllDates: the dates of all the series, each once, ascending
getAllDates(dataSeries) ==
    LET Concat[i \in 0..Len(dataSeries)] ==
            IF i = 0 THEN <<>> ELSE Concat[i - 1] \o DatesOf(dataSeries[i])
    IN  SortDatesAsc(Dedup(Concat[Len(dataSeries)]))

\* byDate[date] of a series: its last item of that date
ItemAt(s, d) == s[LastIdx(s, d)]

RECURSIVE InitialNavs(_, _, _, _, _, _)
\* the "closest date with data" loop of calculateMutualFundsPortfolio:
\* <<initialAgthxNav, initialAncfxNav>> after the loop started at index i
InitialNavs(allDates, i, agthx, ancfx, a, b) ==
    IF i > Len(allDates) THEN <<a, b>>
    ELSE LET d == allDates[i]
             a2 == IF ~Truthy(a) /\ HasDate(agthx, d) THEN ItemAt(agthx, d).nav ELSE a
             b2 == IF ~Truthy(b) /\ HasDate(ancfx, d) THEN ItemAt(ancfx, d).nav ELSE b
         IN  IF Truthy(a2) /\ Truthy(b2) THEN <<a2, b2>>
             ELSE InitialNavs(allDates, i + 1, agthx, ancfx, a2, b2)

RECURSIVE MFDailyValues(_, _, _, _, _, _, _, _, _)
\* the forEach over allDates of calculateMutualFundsPortfolio from index i on
MFDailyValues(allDates, i, agthx, ancfx, aUnits, bUnits, aNav, bNav, initialValue) ==
    IF i > Len(allDates) THEN <<>>
    ELSE LET d == allDates[i]
             hasA == HasDate(agthx, d)
             hasB == HasDate(ancfx, d)
             aNav2 == IF hasA THEN ItemAt(agthx, d).nav ELSE aNav
             bNav2 == IF hasB THEN ItemAt(ancfx, d).nav ELSE bNav
             aUnits2 == IF hasA THEN Reinvest(aUnits, ItemAt(agthx, d).distRatio) ELSE aUnits
             bUnits2 == IF hasB THEN Reinvest(bUnits, ItemAt(ancfx, d).distRatio) ELSE bUnits
             agthxValue == RMul(aUnits2, aNav2)
             ancfxValue == RMul(bUnits2, bNav2)
             totalValue == RAdd(agthxValue, ancfxValue)
         IN  <<[date |-> d, agthxUnits |-> aUnits2, ancfxUnits |-> bUnits2,
                agthxNav |-> aNav2, ancfxNav |-> bNav2,
                agthxValue |-> agthxValue, ancfxValue |-> ancfxValue,
                value |-> totalValue,
                changeFromStart |-> ChangeFromStart(totalValue, initialValue)]>>
             \o MFDailyValues(allDates, i + 1, agthx, ancfx, aUnits2, bUnits2,
                              aNav2, bNav2, initialValue)

calculateMutualFundsPortfolio(agthxData, ancfxData, agthxUnits, ancfxUnits, startDate) ==
    LET filteredAGTHX == FromStartDate(agthxData, startDate)
        filteredANCFX == FromStartDate(ancfxData, startDate)
        allDates == getAllDates(<<filteredAGTHX, filteredANCFX>>)
        navs == InitialNavs(allDates, 1, filteredAGTHX, filteredANCFX, Num(0), Num(0))
        initialValue == RAdd(RMul(agthxUnits, navs[1]), RMul(ancfxUnits, navs[2]))
        dv == IF Len(filteredAGTHX) = 0 \/ Len(filteredANCFX) = 0 THEN <<>>
              ELSE MFDailyValues(allDates, 1, filteredAGTHX, filteredANCFX,
                                 agthxUnits, ancfxUnits, navs[1], navs[2], initialValue)
    IN  [initialDate |-> startDate,
         initialAGTHXUnits |-> agthxUnits,
         initialANCFXUnits |-> ancfxUnits,
         currentAGTHXUnits |-> IF dv = <<>> THEN agthxUnits ELSE dv[Len(dv)].agthxUnits,
         currentANCFXUnits |-> IF dv = <<>> THEN ancfxUnits ELSE dv[Len(dv)].ancfxUnits,
         dailyValues |-> dv]

\* a comparison point whose difference is taken the other way round
ComparisonPoint_P1MinusP2(date, p1, p2, p1StartValue, p2StartValue) ==
    LET p1Index == RMul(RDiv(p1.value, p1StartValue), Num(100))
        p2Index == RMul(RDiv(p2.value, p2StartValue), Num(100))
    IN  [date |-> date, p1Value |-> p1.value, p2Value |-> p2.value,
         p1Index |-> p1Index, p2Index |-> p2Index,
         difference |-> RSub(p1Index, p2Index)]

\* the point alignPortfolioSeries pushes for a date on which both
\* portfolios have the daily values p1 and p2 (lines 774-786)
ComparisonPoint(date, p1, p2, p1StartValue, p2StartValue) ==
    LET p1Index == RMul(RDiv(p1.value, p1StartValue), Num(100))
        p2Index == RMul(RDiv(p2.value, p2StartValue), Num(100))
    IN  [date |-> date, p1Value |-> p1.value, p2Value |-> p2.value,
         p1Index |-> p1Index, p2Index |-> p2Index,
         difference |-> RSub(p2Index, p1Index)]

\* the search loop without its break: the last common date wins
FirstCommonDate_NoBreak(p1, p2, allDates) ==
    LET I == {i \in 1..Len(allDates) :
                 HasDate(p1.dailyValues, allDates[i]) /\ HasDate(p2.dailyValues, allDates[i])}
    IN  IF I = {} THEN 0 ELSE allDates[CHOOSE i \in I : \A j \in I : j <= i]

\* the first date of allDates on which both portfolios have a daily value,
\* 0 when there is none (startDate stays null)
FirstCommonDate(p1, p2, allDates) ==
    LET I == {i \in 1..Len(allDates) :
                 HasDate(p1.dailyValues, allDates[i]) /\ HasDate(p2.dailyValues, allDates[i])}
    IN  IF I = {} THEN 0 ELSE allDates[CHOOSE i \in I : \A j \in I : i <= j]

\* alignment that indexes each portfolio to its own first daily value
\* instead of its value on the first common date
alignPortfolioSeries_OwnFirstValue(portfolio1, portfolio2, allDates) ==
    LET startDate == FirstCommonDate(portfolio1, portfolio2, allDates)
        p1StartValue == portfolio1.dailyValues[1].value
        p2StartValue == portfolio2.dailyValues[1].value
        kept == SelectSeq(allDates, LAMBDA d :
                    d >= startDate /\ HasDate(portfolio1.dailyValues, d)
                                   /\ HasDate(portfolio2.dailyValues, d))
    IN  IF startDate = 0 THEN <<>>
        ELSE [i \in 1..Len(kept) |->
                ComparisonPoint(kept[i], ItemAt(portfolio1.dailyValues, kept[i]),
                                ItemAt(portfolio2.dailyValues, kept[i]),
                                p1StartValue, p2StartValue)]

alignPortfolioSeries(portfolio1, portfolio2, allDates) ==
    LET startDate == FirstCommonDate(portfolio1, portfolio2, allDates)
        p1StartValue == ItemAt(portfolio1.dailyValues, startDate).value
        p2StartValue == ItemAt(portfolio2.dailyValues, startDate).value
        kept == SelectSeq(allDates, LAMBDA d :
                    d >= startDate /\ HasDate(portfolio1.dailyValues, d)
                                   /\ HasDate(portfolio2.dailyValues, d))
    IN  IF startDate = 0 THEN <<>>
        ELSE [i \in 1..Len(kept) |->
                ComparisonPoint(kept[i], ItemAt(portfolio1.dailyValues, kept[i]),
                                ItemAt(portfolio2.dailyValues, kept[i]),
                                p1StartValue, p2StartValue)]

\* ------------------------------------------------------ summary statistics
\* the daily returns (current - previous) / previous of the loop of lines
\* 850-858, from point i on
RECURSIVE DailyReturns(_, _)
DailyReturns(dailyValues, i) ==
    IF i > Len(dailyValues) THEN <<>>
    ELSE <<RDiv(RSub(dailyValues[i].value, dailyValues[i - 1].value),
                dailyValues[i - 1].value)>>
         \o DailyReturns(dailyValues, i + 1)

RECURSIVE SumOf(_, _)
SumOf(numbers, i) ==
    IF i > Len(numbers) THEN Num(0) ELSE RAdd(numbers[i], SumOf(numbers, i + 1))

\* Math.sqrt(variance) * Math.sqrt(252) * 100 of the daily returns, where
\* variance = sumSquaredReturns / countReturns - avgReturn * avgReturn.  The
\* square root is not a rational, so the number is kept as the quantities
\* it is computed from; avgReturn = sumReturns / countReturns is exact, and
\* it is NaN (0 / 0) when there is no return, which makes the result NaN.
Volatility(dailyValues) ==
    LET returns == DailyReturns(dailyValues, 2)
    IN  [countReturns |-> Len(returns),
         avgReturn |-> RDiv(SumOf(returns, 1), Num(Len(returns))),
         returns |-> returns]

\* the volatility is NaN: variance is computed from a NaN avgReturn
VolatilityIsNaN(v) == v.avgReturn = NaN \/ \E i \in 1..Len(v.returns) : v.returns[i] = NaN

\* the volatility is the number 0: the variance of the returns is 0
VolatilityIsZero(v) ==
    /\ ~VolatilityIsNaN(v)
    /\ \A i \in 1..Len(v.returns) : v.returns[i] = v.avgReturn

\* (endDate - startDate) / (365 * 24 * 60 * 60 * 1000), the days being
\* numbered consecutively
YearFraction(first, last) == Norm(last - first, 365)

\* the annualized return (Math.pow(base, exponent) - 1) * 100, kept as base
\* and exponent; the 0 that line 823 leaves when the span is not more than
\* 0.02 year is the number denoted by base 1 and exponent 0
ZeroReturn == [base |-> Num(1), exponent |-> Num(0)]

\* the annualized return computed whatever the span
AnnualizedReturn_AnySpan(initialValue, currentValue, yearFraction) ==
    [base |-> RDiv(currentValue, initialValue), exponent |-> RDiv(Num(1), yearFraction)]

AnnualizedReturn(initialValue, currentValue, yearFraction) ==
    IF RLt(<<1, 50>>, yearFraction)
    THEN [base |-> RDiv(currentValue, initialValue),
          exponent |-> RDiv(Num(1), yearFraction)]
    ELSE ZeroReturn

\* the point the forEach of lines 834-843 leaves in minValue / minDate
\* (least = TRUE) or maxValue / maxDate (least = FALSE), from point i on
RECURSIVE Extreme(_, _, _, _)
Extreme(dailyValues, i, best, least) ==
    IF i > Len(dailyValues) THEN best
    ELSE LET day == dailyValues[i]
             better == IF least THEN RLt(day.value, best.value)
                       ELSE RLt(best.value, day.value)
         IN  Extreme(dailyValues, i + 1,
                     IF better THEN [value |-> day.value, date |-> day.date] ELSE best,
                     least)

\* the summary returned for a portfolio without daily values
EmptySummary ==
    [initialValue |-> Num(0), currentValue |-> Num(0), change |-> Num(0),
     changePercent |-> Num(0)]

\* summarizePortfolio(portfolio, name); of the returned object the model
\* leaves out name and the current units copied from the portfolio
summarizePortfolio(portfolio) ==
    LET dv == portfolio.dailyValues
        initialValue == dv[1].value
        currentValue == dv[Len(dv)].value
        change == RSub(currentValue, initialValue)
        min == Extreme(dv, 1, [value |-> <<1, 0>>, date |-> 0], TRUE)
        max == Extreme(dv, 1, [value |-> <<-1, 0>>, date |-> 0], FALSE)
    IN  IF Len(dv) = 0 THEN EmptySummary
        ELSE [initialValue |-> initialValue,
              currentValue |-> currentValue,
              change |-> change,
              changePercent |-> RMul(RDiv(change, initialValue), Num(100)),
              annualizedReturn |->
                  AnnualizedReturn(initialValue, currentValue,
                                   YearFraction(dv[1].date, dv[Len(dv)].date)),
              minValue |-> min.value, maxValue |-> max.value,
              minDate |-> min.date, maxDate |-> max.date,
              volatility |-> Volatility(dv)]

\* the portfolios calculatePortfolioComparison simulates before it aligns
\* and summarizes them (its locals mmfPortfolio, mutualFundsPortfolio, allDates)
ComparedPortfolios(fd, portfolioConfig) ==
    LET preparedAFAXX == prepareTimeSeries(fd["AFAXX"].merged)
        preparedAGTHX == prepareTimeSeries(fd["AGTHX"].merged)
        preparedANCFX == prepareTimeSeries(fd["ANCFX"].merged)
    IN  [allDates |-> getAllDates(<<preparedAFAXX, preparedAGTHX, preparedANCFX>>),
         mmfPortfolio |-> calculateMMFPortfolio(preparedAFAXX, portfolioConfig.mmf.units,
                                                portfolioConfig.mmf.startDate),
         mutualFundsPortfolio |->
             calculateMutualFundsPortfolio(preparedAGTHX, preparedANCFX,
                                           portfolioConfig.mutualFunds.AGTHX,
                                           portfolioConfig.mutualFunds.ANCFX,
                                           portfolioConfig.mutualFunds.startDate)]

\* the portfolio cut down to the dates of the aligned series
AlignedPart(portfolio, aligned) ==
    [dailyValues |-> SelectSeq(portfolio.dailyValues,
                               LAMBDA p : \E i \in 1..Len(aligned) : aligned[i].date = p.date)]

\* a comparison whose summaries are taken over the aligned dates only
ComparisonOf_AlignedSummaries(built) ==
    LET aligned == alignPortfolioSeries(built.mmfPortfolio, built.mutualFundsPortfolio,
                                        built.allDates)
    IN  [mmfPortfolio |-> summarizePortfolio(AlignedPart(built.mmfPortfolio, aligned)),
         mutualFundsPortfolio |->
             summarizePortfolio(AlignedPart(built.mutualFundsPortfolio, aligned)),
         dailyValues |-> aligned]

\* lines 489-499: the comparison returned for the portfolios built
ComparisonOf(built) ==
    [mmfPortfolio |-> summarizePortfolio(built.mmfPortfolio),
     mutualFundsPortfolio |-> summarizePortfolio(built.mutualFundsPortfolio),
     dailyValues |-> alignPortfolioSeries(built.mmfPortfolio,
                                          built.mutualFundsPortfolio, built.allDates)]

calculatePortfolioComparison(fd, portfolioConfig) ==
    ComparisonOf(ComparedPortfolios(fd, portfolioConfig))

\* ------------------------------------------ calculatePortfolioPerformance
RECURSIVE PerfWalk(_, _, _, _, _, _, _, _)
\* the forEach over the AFAXX dates from index i on; every step gives the
\* point pushed to portfolio1Values and the one pushed to portfolio2Values
\* (the latter with the locals valueAGTHX and valueANCFX it was summed from)
PerfWalk(allDates, i, dataAFAXX, dataAGTHX, dataANCFX, hA, hG, hN) ==
    IF i > Len(allDates) THEN <<>>
    ELSE LET d == allDates[i]
             afaxx == ItemAt(dataAFAXX, d)
             hasG == HasDate(dataAGTHX, d)
             hasN == HasDate(dataANCFX, d)
             valueAGTHX == IF hasG THEN RMul(hG, ItemAt(dataAGTHX, d).nav) ELSE Num(0)
             valueANCFX == IF hasN THEN RMul(hN, ItemAt(dataANCFX, d).nav) ELSE Num(0)
         IN  <<[p1 |-> [date |-> d, value |-> RMul(hA, afaxx.nav)],
                p2 |-> [date |-> d, value |-> RAdd(valueAGTHX, valueANCFX),
                        valueAGTHX |-> valueAGTHX, valueANCFX |-> valueANCFX]]>>
             \o PerfWalk(allDates, i + 1, dataAFAXX, dataAGTHX, dataANCFX,
                         Reinvest(hA, afaxx.distRatio),
                         IF hasG THEN Reinvest(hG, ItemAt(dataAGTHX, d).distRatio) ELSE hG,
                         IF hasN THEN Reinvest(hN, ItemAt(dataANCFX, d).distRatio) ELSE hN)

calculatePortfolioPerformance(mergedFundData) ==
    LET sortedAFAXX == SortByDate(mergedFundData["AFAXX"])
        sortedAGTHX == SortByDate(mergedFundData["AGTHX"])
        sortedANCFX == SortByDate(mergedFundData["ANCFX"])
        walk == PerfWalk(DatesOf(sortedAFAXX), 1, sortedAFAXX, sortedAGTHX, sortedANCFX,
                         PerfHoldings.AFAXX, PerfHoldings.AGTHX, PerfHoldings.ANCFX)
    IN  [portfolio1Values |-> [i \in 1..Len(walk) |-> walk[i].p1],
         portfolio2Values |-> [i \in 1..Len(walk) |-> walk[i].p2]]

\* ------------------------------------------------- aggregation, IIFE
\* the forEach over allDates of combineMutualFundPortfolio from index i on
RECURSIVE PC_Combine(_, _, _, _, _, _)
PC_Combine(allDates, i, agthxValues, ancfxValues, lastAGTHXValue, lastANCFXValue) ==
    IF i > Len(allDates) THEN <<>>
    ELSE LET d == allDates[i]
             a == IF HasDate(agthxValues, d) THEN ItemAt(agthxValues, d).value
                  ELSE lastAGTHXValue
             b == IF HasDate(ancfxValues, d) THEN ItemAt(ancfxValues, d).value
                  ELSE lastANCFXValue
         IN  <<[date |-> d, value |-> RAdd(a, b), agthxValue |-> a, ancfxValue |-> b]>>
             \o PC_Combine(allDates, i + 1, agthxValues, ancfxValues, a, b)

PC_combineMutualFundPortfolio(agthxValues, ancfxValues) ==
    PC_Combine(SortDatesAsc(Dedup(Dedup(DatesOf(agthxValues)) \o Dedup(DatesOf(ancfxValues)))),
               1, agthxValues, ancfxValues, Num(0), Num(0))

\* portfolioData after resetPortfolioData (the daily values; the summaries
\* are derived from them)
EmptyPortfolioData == [mmf |-> <<>>, AGTHX |-> <<>>, ANCFX |-> <<>>, combined |-> <<>>]

\* calculatePortfolios without its reset: the arrays of the previous call stay
resetPortfolioData_Keep(pd) == pd

\* resetPortfolioData(): the module variable portfolioData, whatever it
\* held, is replaced by a fresh empty structure
resetPortfolioData(pd) == EmptyPortfolioData

\* calculatePortfolios(fundData) run when the module variable portfolioData
\* holds pd: every simulation pushes its points onto the arrays left by the
\* reset, and combineMutualFundPortfolio reads the arrays of both funds
PC_calculatePortfolios(pd, fd) ==
    LET cleared == resetPortfolioData(pd)
        hasAncfx == Len(fd["ANCFX"].nav) > 0
        hasAgthx == Len(fd["AGTHX"].nav) > 0
        agthx == cleared.AGTHX \o
                 (IF hasAgthx THEN PC_calculateMutualFundComponent(fd["AGTHX"], "AGTHX")
                  ELSE <<>>)
        ancfx == cleared.ANCFX \o
                 (IF hasAncfx THEN PC_calculateMutualFundComponent(fd["ANCFX"], "ANCFX")
                  ELSE <<>>)
    IN  [mmf |-> cleared.mmf \o
                 (IF Len(fd["AFAXX"].nav) > 0 THEN PC_calculateMMFPortfolio(fd["AFAXX"])
                  ELSE <<>>),
         AGTHX |-> agthx,
         ANCFX |-> ancfx,
         combined |-> cleared.combined \o
                      (IF hasAncfx /\ hasAgthx THEN PC_combineMutualFundPortfolio(agthx, ancfx)
                       ELSE <<>>)]

\* ------------------------------------------------ distribution processor
\* src/process-distributions.js declares getDistributionData, findFundData,
\* processMMFData, processMutualFundData and formatDate twice; in a script
\* the later declaration of a name replaces the earlier one, so lines
\* 300-475 are the code that runs (prefix PD_).  src/unnamed/part_000 is
\* the promise-returning version of the same file (no prefix).
\*
\* A data file is a sequence of rows [date, dist, nav] in file order; for a
\* money market fund dist is the daily rate and the nav column is unused.

\* the rows whose date lies within [startDate, endDate], in file order: the
\* loop shared by all the parsers
RowsInRange(rows, start, end) ==
    SelectSeq(rows, LAMBDA row : row.date >= start /\ row.date <= end)

\* ticker.startsWith('AF') / ticker.endsWith('XX')
isMmfTicker(ticker) == ticker = "AFAXX"

\* the items pushed for the rows: nav is 1.00 for a money market fund
ItemsOf(rows, mmf) ==
    [i \in 1..Len(rows) |->
        [date |-> rows[i].date,
         nav |-> IF mmf THEN Num(1) ELSE rows[i].nav,
         dist |-> rows[i].dist]]

\* processMMFData / processMutualFundData as they run (lines 391-463):
\* the items of the rows in range, in file order
PD_processData(data, start, end, mmf) ==
    [items |-> ItemsOf(RowsInRange(data, start, end), mmf), error |-> "none"]

\* the rows findFundData (327-352) has built in, oldest first
PD_findFundData(ticker) ==
    IF isMmfTicker(ticker)
    THEN <<[date |-> 1, dist |-> <<1, 2>>, nav |-> Num(1)],
           [date |-> 2, dist |-> <<1, 2>>, nav |-> Num(1)],
           [date |-> 3, dist |-> <<1, 2>>, nav |-> Num(1)]>>
    ELSE <<[date |-> 1, dist |-> Num(6), nav |-> Num(12)],
           [date |-> 3, dist |-> Num(6), nav |-> Num(12)]>>

\* getDistributionData of process-distributions.js (300-320)
PD_getDistributionData(ticker, start, end) ==
    PD_processData(PD_findFundData(ticker), start, end, isMmfTicker(ticker))

\* getDistributionDataFromFiles (515-535) reading the file `data`
PD_getDistributionDataFromFiles(ticker, data, start, end) ==
    PD_processData(data, start, end, isMmfTicker(ticker))

\* what the promise of getDistributionData of part_000 (84-141) resolves
\* to when the file holds `data`: parseMmfData / parseMutualFundData, then
\* items.sort
getDistributionData(ticker, data, start, end) ==
    IF start > end
    THEN [items |-> <<>>, error |-> "Start date cannot be after end date"]
    ELSE [items |-> SortByDate(ItemsOf(RowsInRange(data, start, end), isMmfTicker(ticker))),
          error |-> "none"]

\* what can be wrong with a request: the ticker is no non-empty string, a
\* date argument is a string that is no date, the data file of the ticker
\* does not exist, the file starts with a row whose date column is no date
\* ('xx/yy/zz'), or it starts with a row that has only its first column
Faults == {"none", "ticker", "startDate", "endDate", "file", "rowDate", "rowColumns"}

\* the object returned by a branch that reports an error: part_000 adds
\* items: [], process-distributions.js returns { error } alone, which
\* leaves items undefined; both are a result without distribution items
ErrorResult(message) == [items |-> <<>>, error |-> message]

\* getDistributionData of part_000 on a request with the fault f: every
\* branch ends in resolve(...).  A row without a date is skipped (239-241,
\* 299-301, or the range test fails on an Invalid Date); a row that lacks a
\* column makes the then-callback throw a TypeError (235, 306), which the
\* chained catch of line 134 turns into a resolved error
getDistributionDataOn(f, ticker, data, start, end) ==
    [settled |-> "resolved",
     result |->
        IF f = "ticker" THEN ErrorResult("Invalid ticker symbol")
        ELSE IF f = "startDate" THEN ErrorResult("Invalid start date format")
        ELSE IF f = "endDate" THEN ErrorResult("Invalid end date format")
        ELSE IF start > end THEN ErrorResult("Start date cannot be after end date")
        ELSE IF f \in {"file", "rowColumns"}
             THEN ErrorResult("Error fetching distribution data")
        ELSE getDistributionData(ticker, data, start, end)]

\* getDistributionData of process-distributions.js (300-320) on a request
\* with the fault f: it is not async and returns the object itself.  Its
\* rows are built in, so a fault of the file does not reach it; an
\* unreadable date argument becomes an Invalid Date, which no row compares
\* with (407, 444)
PD_getDistributionDataOn(f, ticker, start, end) ==
    [settled |-> "returned",
     result |->
        IF f = "ticker" THEN ErrorResult("No data found for ticker")
        ELSE IF f \in {"startDate", "endDate"} THEN [items |-> <<>>, error |-> "none"]
        ELSE PD_getDistributionData(ticker, start, end)]

\* getDistributionDataFromFiles (515-535) on a request with the fault f:
\* an async function, so an exception of processMMFData (403) or
\* processMutualFundData (446) on a row that lacks a column rejects the
\* promise; fetchFundData (483-509) catches its own errors and returns null
PD_getDistributionDataFromFilesOn(f, ticker, data, start, end) ==
    IF f = "rowColumns" /\ (isMmfTicker(ticker) \/ start <= end)
    THEN [settled |-> "rejected", result |-> ErrorResult("TypeError")]
    ELSE [settled |-> "resolved",
          result |->
             IF f \in {"ticker", "file"} THEN ErrorResult("No data found for ticker")
             ELSE IF f \in {"startDate", "endDate"} THEN [items |-> <<>>, error |-> "none"]
             ELSE PD_getDistributionDataFromFiles(ticker, data, start, end)]

\* ================================================================== state
VARIABLES
    mode,          \* which scenario runs: "rec" (one instrument) or "cmp" (three funds)
    fundData,      \* the page's fundData: per ticker nav, distributions, merged
    startDate,     \* START_DATE
    pc,            \* per ticker: "none", "loaded" (both loads done), "merged"
    reconciled,    \* per ticker: what the page's mergeNavAndDistributions returned
    pcMerged,      \* per ticker: what the IIFE's mergeNavAndDistributions returned
    portfolioData, \* the IIFE's module-level portfolioData
    simulated,     \* the portfolio returned by calculateMMFPortfolio
    comparison,    \* the result of calculatePortfolioComparison
    perf,          \* portfolio1Values / portfolio2Values of calculatePortfolioPerformance
    called,        \* the operations that have run
    thrown,        \* message of the Error the last call reported, "none" if it returned
    portfolios,    \* the locals of calculatePortfolioComparison: allDates and the two portfolios
    calls,         \* number of calls of PortfolioCompare.calculatePortfolios so far
    completionStatus, \* the page's completionStatus: completed, errors
    loads,         \* per load operation of the page: "idle", "pending", "done", "failed",
                   \* "reported" (getDistributionData resolved to an error)
    compared,      \* the fundData each run of processAllCompletedData was handed
    distFile,      \* the rows of the distribution data file, in file order
    endDate,       \* the endDate handed to getDistributionData
    distResult,    \* what the distribution processor returned / resolved to
    fault,         \* what is wrong with the request or its data file, "none" if nothing
    settled,       \* how the request ended: "resolved", "rejected", "returned", "threw"
    summarized,    \* the portfolio handed to summarizePortfolio
    portfolioSummary, \* what summarizePortfolio returned for it
    proxyIndex,    \* fetchWithProxy: the loop variable proxyIndex, counted from 1
    proxyPc,       \* fetchWithProxy: "idle", "fetch", "text", "returned", "threw"
    proxyLog,      \* fetchWithProxy: the console lines, one per attempt and per failure
    proxyResult    \* fetchWithProxy: the proxy whose parsed body was returned, 0 if none

\* the variables of the page's load protocol
pageVars == <<completionStatus, loads, compared>>

\* the variables of the distribution processor
distVars == <<distFile, endDate, distResult, fault, settled>>

\* the variables of a summary taken on its own
sumVars == <<summarized, portfolioSummary>>

\* the variables of fetchWithProxy
proxyVars == <<proxyIndex, proxyPc, proxyLog, proxyResult>>

vars == <<mode, fundData, startDate, pc, reconciled, pcMerged, portfolioData,
          simulated, comparison, perf, called, thrown, portfolios, calls,
          pageVars, distVars, sumVars, proxyVars>>

\* ----------------------------------------------------------------- inputs
Dates == 1..MaxDate

NavVals == {Num(10), Num(11)}

NavRecs == [date : Dates, nav : NavVals]

\* a distribution of 6 per unit reinvested at 12, on any day
DistRecs == [date : Dates, dist : {Num(6)}, nav : {Num(12)}]

UniqueDates(s) == \A i, j \in 1..Len(s) : i # j => s[i].date # s[j].date

\* series of at most MaxLen records, no two of one date, in any order
SeriesOver(recs) ==
    {s \in UNION {[1..n -> recs] : n \in 0..MaxLen} : UniqueDates(s)}

StartDates == {1, 2}

\* the portfolioConfig handed to calculatePortfolioComparison: 100 units of
\* AFAXX, 10 shares of AGTHX and 20 of ANCFX, both tracked from `start`
\* (small holdings keep the exact index arithmetic within 32-bit integers)
InputConfig(start) ==
    [mmf |-> [units |-> Num(100), startDate |-> start],
     mutualFunds |-> [AGTHX |-> Num(10), ANCFX |-> Num(20), startDate |-> start]]

EmptyFund == [nav |-> <<>>, distributions |-> <<>>, merged |-> <<>>]

NoResult == [mmfPortfolio |-> EmptySummary,
             mutualFundsPortfolio |-> EmptySummary,
             dailyValues |-> <<>>]

NoPortfolios == [allDates |-> <<>>,
                 mmfPortfolio |-> [dailyValues |-> <<>>],
                 mutualFundsPortfolio |-> [dailyValues |-> <<>>]]

NoPerf == [portfolio1Values |-> <<>>, portfolio2Values |-> <<>>]

NoSim == [dailyValues |-> <<>>]

\* completionStatus as the page script creates it (total is the constant 6)
NoCompletion == [completed |-> 0, errors |-> <<>>]

LoadOps == {"nav", "distributions"}

NoDistResult == [items |-> <<>>, error |-> "none"]

\* the parts of the state a scenario does not use
InitPage ==
    /\ completionStatus = NoCompletion
    /\ loads = [t \in Tickers |-> [o \in LoadOps |-> "idle"]]
    /\ compared = <<>>

InitDist ==
    /\ distFile = <<>>
    /\ endDate = 0
    /\ distResult = NoDistResult
    /\ fault = "none"
    /\ settled = "pending"

InitSummary ==
    /\ summarized = [dailyValues |-> <<>>]
    /\ portfolioSummary = EmptySummary

InitProxy ==
    /\ proxyIndex = 0
    /\ proxyPc = "idle"
    /\ proxyLog = <<>>
    /\ proxyResult = 0

InitRest ==
    /\ thrown = "none"
    /\ calls = 0
    /\ reconciled = [t \in Tickers |-> <<>>]
    /\ pcMerged = [t \in Tickers |-> <<>>]
    /\ portfolioData = EmptyPortfolioData
    /\ simulated = NoSim
    /\ comparison = NoResult
    /\ perf = NoPerf
    /\ called = {}

\* one instrument whose NAV series and distribution series have been loaded
InitRec ==
    /\ mode = "rec"
    /\ \E tk \in {"AFAXX", "AGTHX"}, n \in SeriesOver(NavRecs), ds \in SeriesOver(DistRecs) :
          /\ fundData = [t \in Tickers |->
                            IF t = tk THEN [nav |-> n, distributions |-> ds, merged |-> <<>>]
                            ELSE EmptyFund]
          /\ pc = [t \in Tickers |-> IF t = tk THEN "loaded" ELSE "none"]
    /\ startDate \in StartDates
    /\ portfolios = NoPortfolios
    /\ InitRest
    /\ InitPage
    /\ InitSummary
    /\ InitProxy
    /\ InitDist

\* ---------------------------------------------------------------- actions
\* checkAndMergeData(ticker), called when the loads of the ticker are done
CheckAndMergeData(t) ==
    /\ pc[t] = "loaded"
    /\ LET mergedData == mergeNavAndDistributions(fundData[t].nav,
                                                  fundData[t].distributions, t)
       IN  IF Len(fundData[t].nav) > 0
           THEN /\ reconciled' = [reconciled EXCEPT ![t] = mergedData]
                /\ fundData' = [fundData EXCEPT ![t].merged = FilterMissingNav(mergedData)]
           ELSE UNCHANGED <<reconciled, fundData>>
    /\ pc' = [pc EXCEPT ![t] = "merged"]
    /\ UNCHANGED <<mode, startDate, pcMerged, portfolioData, simulated, comparison,
                   perf, called, thrown, portfolios, calls, pageVars, distVars, sumVars, proxyVars>>

\* the merged series of the instrument, prepared and simulated from 100 units
Simulate(t) ==
    /\ mode = "rec"
    /\ pc[t] = "merged"
    /\ "sim" \notin called
    /\ simulated' = calculateMMFPortfolio(prepareTimeSeries(fundData[t].merged),
                                          Num(100), startDate)
    /\ called' = called \cup {"sim"}
    /\ thrown' = "none"
    /\ UNCHANGED <<mode, fundData, startDate, pc, reconciled, pcMerged, portfolioData,
                   comparison, perf, portfolios, calls, pageVars, distVars, sumVars, proxyVars>>

\* PortfolioCompare.calculatePortfolios(fundData)
PC_CalculatePortfolios ==
    /\ mode = "rec"
    /\ "iife" \notin called
    /\ portfolioData' = PC_calculatePortfolios(portfolioData, fundData)
    /\ pcMerged' = [t \in Tickers |->
                       IF Len(fundData[t].nav) > 0
                       THEN PC_mergeNavAndDistributions(fundData[t].nav,
                                                        fundData[t].distributions)
                       ELSE <<>>]
    /\ called' = called \cup {"iife"}
    /\ calls' = calls + 1
    /\ thrown' = "none"
    /\ UNCHANGED <<mode, fundData, startDate, pc, reconciled, simulated, comparison, perf,
                   portfolios, pageVars, distVars, sumVars, proxyVars>>

NextRec ==
    \/ \E t \in Tickers : CheckAndMergeData(t)
    \/ \E t \in Tickers : Simulate(t)
    \/ PC_CalculatePortfolios

SpecRec == InitRec /\ [][NextRec]_vars

\* ------------------------------------------------- three-fund comparison
CmpDates == 1..MaxCmpDate

\* what a merged point of each fund can carry besides its date, as the page
\* produces it: nav is never missing; AFAXX has nav 1.00 and its
\* distributions are reinvested at 1.00
Absent == [nav |-> Null, distRatio |-> Num(0), distribution |-> Num(0)]

MergedOptions ==
    [AFAXX |-> {Absent,
                [nav |-> Num(1), distRatio |-> Num(0), distribution |-> Num(0)],
                [nav |-> Num(1), distRatio |-> <<1, 2>>, distribution |-> <<1, 2>>]},
     AGTHX |-> {Absent,
                [nav |-> Num(10), distRatio |-> Num(0), distribution |-> Num(0)],
                [nav |-> Num(11), distRatio |-> <<1, 2>>, distribution |-> Num(6)]},
     ANCFX |-> {Absent,
                [nav |-> Num(10), distRatio |-> Num(0), distribution |-> Num(0)]}]

RECURSIVE MergedFrom(_, _)
\* the merged series (newest first) holding f[d] on every day d <= n where
\* f[d] is not Absent
MergedFrom(f, n) ==
    IF n = 0 THEN <<>>
    ELSE IF f[n] = Absent THEN MergedFrom(f, n - 1)
    ELSE <<[date |-> n, nav |-> f[n].nav, distRatio |-> f[n].distRatio,
            distribution |-> f[n].distribution]>> \o MergedFrom(f, n - 1)

\* the three funds loaded and merged by the page
InitCmp ==
    /\ mode = "cmp"
    /\ \E fa \in [CmpDates -> MergedOptions.AFAXX],
          fg \in [CmpDates -> MergedOptions.AGTHX],
          fn \in [CmpDates -> MergedOptions.ANCFX] :
          fundData = [AFAXX |-> [nav |-> <<>>, distributions |-> <<>>,
                                 merged |-> MergedFrom(fa, MaxCmpDate)],
                      AGTHX |-> [nav |-> <<>>, distributions |-> <<>>,
                                 merged |-> MergedFrom(fg, MaxCmpDate)],
                      ANCFX |-> [nav |-> <<>>, distributions |-> <<>>,
                                 merged |-> MergedFrom(fn, MaxCmpDate)]]
    /\ pc = [t \in Tickers |-> "merged"]
    /\ startDate = 1
    /\ portfolios = NoPortfolios
    /\ InitRest
    /\ InitPage
    /\ InitSummary
    /\ InitProxy
    /\ InitDist

\* calculatePortfolioComparison(fundData, portfolioConfig), as
\* processAllCompletedData calls it once the funds are loaded
CalculatePortfolioComparison ==
    /\ mode = "cmp"
    /\ called = {}
    /\ portfolios' = ComparedPortfolios(fundData, InputConfig(startDate))
    /\ comparison' = ComparisonOf(portfolios')
    /\ called' = called \cup {"cmp"}
    /\ thrown' = "none"
    /\ UNCHANGED <<mode, fundData, startDate, pc, reconciled, pcMerged, portfolioData,
                   simulated, perf, calls, pageVars, distVars, sumVars, proxyVars>>

\* calculatePortfolioPerformance() with mergedFundData holding the merged series
CalculatePortfolioPerformance ==
    /\ mode = "cmp"
    /\ called = {}
    /\ perf' = calculatePortfolioPerformance([t \in Tickers |-> fundData[t].merged])
    /\ called' = called \cup {"perf"}
    /\ thrown' = "none"
    /\ UNCHANGED <<mode, fundData, startDate, pc, reconciled, pcMerged, portfolioData,
                   simulated, comparison, portfolios, calls, pageVars, distVars, sumVars, proxyVars>>

NextCmp ==
    \/ CalculatePortfolioComparison
    \/ CalculatePortfolioPerformance

SpecCmp == InitCmp /\ [][NextCmp]_vars

\* ------------------------------------------- repeated two-fund aggregation
AggDates == 1..MaxAggDate

\* what the loaded data of a fund holds for one day: no record ("absent"),
\* a NAV record of 10 ("priced"), a NAV record of 11 and a distribution of 6
\* reinvested at 12 ("paying"), or a NAV record of 10 and a distribution of
\* 6 whose reinvestment price was parsed as 0 ("unpriced")
AggDay == [AGTHX |-> {"absent", "priced", "paying", "unpriced"},
           ANCFX |-> {"absent", "priced"}]

RECURSIVE NavFrom(_, _)
\* the NAV records, oldest first, of the days d, d + 1, ... described by f
NavFrom(f, d) ==
    IF d > MaxAggDate THEN <<>>
    ELSE (IF f[d] = "absent" THEN <<>>
          ELSE <<[date |-> d, nav |-> IF f[d] = "paying" THEN Num(11) ELSE Num(10)]>>)
         \o NavFrom(f, d + 1)

RECURSIVE DistFrom(_, _)
\* the distribution records, oldest first, of the days d, d + 1, ...
DistFrom(f, d) ==
    IF d > MaxAggDate THEN <<>>
    ELSE (IF f[d] = "paying" THEN <<[date |-> d, dist |-> Num(6), nav |-> Num(12)]>>
          ELSE IF f[d] = "unpriced" THEN <<[date |-> d, dist |-> Num(6), nav |-> Num(0)]>>
          ELSE <<>>)
         \o DistFrom(f, d + 1)

\* the fundData handed to calculatePortfolios: AGTHX and ANCFX as described
\* by fg and fn, nothing loaded for AFAXX
AggInput(fg, fn) ==
    [AFAXX |-> EmptyFund,
     AGTHX |-> [nav |-> NavFrom(fg, 1), distributions |-> DistFrom(fg, 1), merged |-> <<>>],
     ANCFX |-> [nav |-> NavFrom(fn, 1), distributions |-> DistFrom(fn, 1), merged |-> <<>>]]

\* the IIFE loaded, before any call
InitAgg ==
    /\ mode = "agg"
    /\ fundData = [t \in Tickers |-> EmptyFund]
    /\ pc = [t \in Tickers |-> "none"]
    /\ startDate = 1
    /\ portfolios = NoPortfolios
    /\ InitRest
    /\ InitPage
    /\ InitSummary
    /\ InitProxy
    /\ InitDist

\* one more call PortfolioCompare.calculatePortfolios(x), x any input
PC_CalculatePortfoliosWith ==
    /\ mode = "agg"
    /\ calls < MaxCalls
    /\ \E fg \in [AggDates -> AggDay.AGTHX], fn \in [AggDates -> AggDay.ANCFX] :
          fundData' = AggInput(fg, fn)
    /\ portfolioData' = PC_calculatePortfolios(portfolioData, fundData')
    /\ pcMerged' = [t \in Tickers |->
                       IF Len(fundData'[t].nav) > 0
                       THEN PC_mergeNavAndDistributions(fundData'[t].nav,
                                                        fundData'[t].distributions)
                       ELSE <<>>]
    /\ calls' = calls + 1
    /\ called' = called \cup {"iife"}
    /\ thrown' = "none"
    /\ UNCHANGED <<mode, startDate, pc, reconciled, simulated, comparison, perf,
                   portfolios, pageVars, distVars, sumVars, proxyVars>>

NextAgg == PC_CalculatePortfoliosWith

SpecAgg == InitAgg /\ [][NextAgg]_vars

\* ------------------------------------------------- the page's load protocol
\* completionStatus.total: FUND_TICKERS.length * 2
CompletionTotal == Cardinality(Tickers) * 2

\* the NAV series a successful fetch delivers: two days, AFAXX generated by
\* the page at 1.00
PageNav(t) ==
    IF t = "AFAXX" THEN <<[date |-> 1, nav |-> Num(1)], [date |-> 2, nav |-> Num(1)]>>
    ELSE IF t = "AGTHX" THEN <<[date |-> 1, nav |-> Num(10)], [date |-> 2, nav |-> Num(11)]>>
    ELSE <<[date |-> 1, nav |-> Num(10)], [date |-> 2, nav |-> Num(10)]>>

\* the items a successful getDistributionData delivers: one distribution
PageDist(t) ==
    IF t = "AFAXX" THEN <<[date |-> 2, dist |-> <<1, 2>>, nav |-> Num(1)]>>
    ELSE IF t = "AGTHX" THEN <<[date |-> 2, dist |-> Num(6), nav |-> Num(12)]>>
    ELSE <<[date |-> 1, dist |-> Num(5), nav |-> Num(10)]>>

\* what a fetch of NAV data can resolve to: records, or nothing
NavOutcomes(t) == {PageNav(t), <<>>}

\* what getDistributionData can resolve to: items, no item, or an error
DistOutcomes(t) ==
    {[items |-> PageDist(t), error |-> "none"],
     [items |-> <<>>, error |-> "none"],
     [items |-> <<>>, error |-> "No data found for ticker"]}

\* a counter that counts the successful loads only
updateCompletionStatus_SuccessOnly(cs, success, errorMessage) ==
    [completed |-> IF success THEN cs.completed + 1 ELSE cs.completed,
     errors |-> IF ~success THEN Append(cs.errors, errorMessage) ELSE cs.errors]

\* completionStatus after updateCompletionStatus(success, errorMessage)
updateCompletionStatus(cs, success, errorMessage) ==
    [completed |-> cs.completed + 1,
     errors |-> IF ~success THEN Append(cs.errors, errorMessage) ELSE cs.errors]

\* the test under which updateCompletionStatus calls processAllCompletedData
AllCompleted(cs) == cs.completed = CompletionTotal /\ cs.errors = <<>>

\* fundData after checkAndMergeData(ticker)
checkAndMergeData(fd, t) ==
    IF Len(fd[t].nav) > 0
    THEN [fd EXCEPT ![t].merged =
             FilterMissingNav(mergeNavAndDistributions(fd[t].nav, fd[t].distributions, t))]
    ELSE fd

\* the script of the page has run; DOMContentLoaded has not fired yet
InitLoad ==
    /\ mode = "page"
    /\ fundData = [t \in Tickers |-> EmptyFund]
    /\ pc = [t \in Tickers |-> "none"]
    /\ startDate = 1
    /\ portfolios = NoPortfolios
    /\ InitRest
    /\ InitPage
    /\ InitSummary
    /\ InitProxy
    /\ InitDist

\* what a load callback does to the rest of the state once it has called
\* updateCompletionStatus, which left completionStatus as cs: when all six
\* loads are counted and none failed, processAllCompletedData runs at once,
\* on fundData as it is at that moment; then the callback goes on and
\* leaves fundData as `after`
Callback(cs, after) ==
    /\ completionStatus' = cs
    /\ IF AllCompleted(cs)
       THEN /\ compared' = Append(compared, fundData)
            /\ portfolios' = ComparedPortfolios(fundData, InputConfig(startDate))
            /\ comparison' = ComparisonOf(portfolios')
            /\ called' = called \cup {"cmp"}
       ELSE UNCHANGED <<compared, portfolios, comparison, called>>
    /\ fundData' = after
    /\ thrown' = "none"
    /\ UNCHANGED <<mode, startDate, pc, reconciled, pcMerged, portfolioData, simulated,
                   perf, calls, distVars, sumVars, proxyVars>>

\* loadAllFundData() on a page whose process-distributions.js is the
\* promise-returning one (part_000): the five asynchronous loads start;
\* fetchNavData of AFAXX completes synchronously within it
LoadAllFundData ==
    /\ mode = "page"
    /\ \A t \in Tickers, o \in LoadOps : loads[t][o] = "idle"
    /\ loads' = [t \in Tickers |-> [o \in LoadOps |->
                     IF t = "AFAXX" /\ o = "nav" THEN "done" ELSE "pending"]]
    /\ Callback(updateCompletionStatus(completionStatus, TRUE, "none"),
                checkAndMergeData([fundData EXCEPT !["AFAXX"].nav = PageNav("AFAXX")],
                                  "AFAXX"))

\* loadAllFundData() on a page whose process-distributions.js is the one of
\* src/: its getDistributionData returns the result object itself, so the
\* `.then` of line 1400 throws in fetchDistributionData('ANCFX'), the first
\* one called, and the forEach of line 1334 ends there with only the NAV
\* fetch of ANCFX started
LoadAllFundDataAborted ==
    /\ mode = "page"
    /\ \A t \in Tickers, o \in LoadOps : loads[t][o] = "idle"
    /\ loads' = [loads EXCEPT !["ANCFX"]["nav"] = "pending"]
    /\ thrown' = "TypeError"
    /\ UNCHANGED <<mode, fundData, startDate, pc, reconciled, pcMerged, portfolioData,
                   simulated, comparison, perf, called, portfolios, calls,
                   completionStatus, compared, distVars, sumVars, proxyVars>>

\* the then-callback of fetchFundData(ticker, START_DATE)
NavResolved(t) ==
    /\ loads[t]["nav"] = "pending"
    /\ loads' = [loads EXCEPT ![t]["nav"] = "done"]
    /\ \E data \in NavOutcomes(t) :
          Callback(updateCompletionStatus(completionStatus, TRUE, "none"),
                   checkAndMergeData(IF Len(data) > 0
                                     THEN [fundData EXCEPT ![t].nav = data]
                                     ELSE fundData, t))

\* the catch-callback of fetchFundData(ticker, START_DATE)
NavRejected(t) ==
    /\ loads[t]["nav"] = "pending"
    /\ loads' = [loads EXCEPT ![t]["nav"] = "failed"]
    /\ Callback(updateCompletionStatus(completionStatus, FALSE, "NAV data error"), fundData)

\* the then-callback of getDistributionData(ticker, START_DATE)
DistResolved(t) ==
    /\ loads[t]["distributions"] = "pending"
    /\ \E result \in DistOutcomes(t) :
          /\ loads' = [loads EXCEPT ![t]["distributions"] =
                           IF result.error = "none" THEN "done" ELSE "reported"]
          /\ Callback(updateCompletionStatus(completionStatus, TRUE, "none"),
                   checkAndMergeData(IF result.error = "none" /\ Len(result.items) > 0
                                     THEN [fundData EXCEPT ![t].distributions = result.items]
                                     ELSE fundData, t))

\* the catch-callback of getDistributionData(ticker, START_DATE)
DistRejected(t) ==
    /\ loads[t]["distributions"] = "pending"
    /\ loads' = [loads EXCEPT ![t]["distributions"] = "failed"]
    /\ Callback(updateCompletionStatus(completionStatus, FALSE, "Distribution data error"),
                fundData)

NextLoad ==
    \/ LoadAllFundData
    \/ LoadAllFundDataAborted
    \/ \E t \in Tickers : NavResolved(t)
    \/ \E t \in Tickers : NavRejected(t)
    \/ \E t \in Tickers : DistResolved(t)
    \/ \E t \in Tickers : DistRejected(t)

SpecLoad == InitLoad /\ [][NextLoad]_vars

\* ------------------------------------------------ distribution requests
\* the rows a distribution file can hold
FileRows == [date : Dates, dist : {Num(6)}, nav : {Num(12)}]

\* a ticker, its data file with the rows in any order, and a date range
InitFile ==
    /\ mode = "dist"
    /\ \E tk \in {"AFAXX", "AGTHX"} :
          pc = [t \in Tickers |-> IF t = tk THEN "loaded" ELSE "none"]
    /\ distFile \in SeriesOver(FileRows)
    /\ startDate \in Dates
    /\ endDate \in Dates
    /\ distResult = NoDistResult
    /\ fault \in Faults
    /\ settled = "pending"
    /\ fundData = [t \in Tickers |-> EmptyFund]
    /\ portfolios = NoPortfolios
    /\ InitRest
    /\ InitPage
    /\ InitSummary
    /\ InitProxy

\* what a request that ended as `outcome` leaves
Requested(name, outcome) ==
    /\ mode = "dist"
    /\ called = {}
    /\ called' = {name}
    /\ distResult' = outcome.result
    /\ settled' = outcome.settled
    /\ thrown' = IF outcome.settled = "rejected" THEN outcome.result.error ELSE "none"
    /\ UNCHANGED <<mode, fundData, startDate, pc, reconciled, pcMerged, portfolioData,
                   simulated, comparison, perf, portfolios, calls, pageVars,
                   distFile, endDate, fault, sumVars, proxyVars>>

\* getDistributionData(ticker, startDate, endDate) of part_000
GetDistributionData(t) ==
    /\ pc[t] = "loaded"
    /\ Requested("promise",
                 getDistributionDataOn(fault, t, distFile, startDate, endDate))

\* getDistributionData(ticker, startDate, endDate) of process-distributions.js
PD_GetDistributionData(t) ==
    /\ pc[t] = "loaded"
    /\ Requested("builtin", PD_getDistributionDataOn(fault, t, startDate, endDate))

\* getDistributionDataFromFiles(ticker, startDate, endDate)
PD_GetDistributionDataFromFiles(t) ==
    /\ pc[t] = "loaded"
    /\ Requested("files",
                 PD_getDistributionDataFromFilesOn(fault, t, distFile, startDate, endDate))

NextFile ==
    \/ \E t \in Tickers : GetDistributionData(t)
    \/ \E t \in Tickers : PD_GetDistributionData(t)
    \/ \E t \in Tickers : PD_GetDistributionDataFromFiles(t)

SpecFile == InitFile /\ [][NextFile]_vars

\* ------------------------------------------------- a portfolio summarized
SumDates == 1..MaxSumDate

\* the values a daily point can have; Infinity is the value of every day
\* from a reinvestment at the ratio dist / 0 on (units * Infinity)
SumValues == {Num(10), Num(11), Num(12), <<1, 0>>}

RECURSIVE PointsOf(_, _)
\* the daily values, oldest first, with the value f[d] on every day d of D
PointsOf(D, f) ==
    IF D = {} THEN <<>>
    ELSE LET d == CHOOSE x \in D : \A y \in D : x <= y
         IN  <<[date |-> d, value |-> f[d]]>> \o PointsOf(D \ {d}, f)

\* a simulated portfolio: up to MaxSumLen daily values in ascending date
\* order, as every simulation pushes them
InitSum ==
    /\ mode = "sum"
    /\ \E D \in {X \in SUBSET SumDates : Cardinality(X) <= MaxSumLen} :
          \E f \in [D -> SumValues] :
              summarized = [dailyValues |-> PointsOf(D, f)]
    /\ portfolioSummary = EmptySummary
    /\ fundData = [t \in Tickers |-> EmptyFund]
    /\ pc = [t \in Tickers |-> "none"]
    /\ startDate = 1
    /\ portfolios = NoPortfolios
    /\ InitRest
    /\ loads = [t \in Tickers |-> [o \in LoadOps |-> "idle"]]
    /\ completionStatus = NoCompletion
    /\ compared = <<>>
    /\ InitDist
    /\ InitProxy

\* summarizePortfolio(portfolio, name)
SummarizePortfolio ==
    /\ mode = "sum"
    /\ called = {}
    /\ portfolioSummary' = summarizePortfolio(summarized)
    /\ called' = {"sum"}
    /\ thrown' = "none"
    /\ UNCHANGED <<mode, fundData, startDate, pc, reconciled, pcMerged, portfolioData,
                   simulated, comparison, perf, portfolios, calls, pageVars, distVars,
                   summarized, proxyVars>>

NextSum == SummarizePortfolio

SpecSum == InitSum /\ [][NextSum]_vars

\* ------------------------------------------------------- fetchWithProxy
\* src/fund-data-fetcher.js, lines 76-107.  proxyIndex counts from 1.
PROXIES == <<"allorigins", "corsproxy", "thingproxy", "cors-anywhere">>

\* what response.text() can end in: a body JSON.parse reads ("json"), a
\* body it cannot read ("garbage"), a rejection ("aborted"), and, where it
\* matters (line 92), an allorigins wrapper whose contents JSON.parse reads
\* ("wrapper") or cannot read ("wrapperBad")
Bodies(proxy) ==
    IF proxy = "allorigins" THEN {"json", "garbage", "aborted", "wrapper", "wrapperBad"}
    ELSE {"json", "garbage", "aborted"}

\* a loop that leaves out the proxy after the failed one
NextProxyIndex_Skip(i) == i + 2

\* proxyIndex++
NextProxyIndex(i) == i + 1

\* the console line of an attempt (line 79)
Attempting(i) == [proxy |-> i, line |-> "attempting"]

\* the console line of a failure (line 101)
FailedLine(i, message) == [proxy |-> i, line |-> message]

\* fetchWithProxy has not been called
\* (the rest of the state is that of a page on which nothing has run)
InitFetch ==
    /\ mode = "proxy"
    /\ InitProxy
    /\ fundData = [t \in Tickers |-> EmptyFund]
    /\ pc = [t \in Tickers |-> "none"]
    /\ startDate = 1
    /\ portfolios = NoPortfolios
    /\ InitRest
    /\ loads = [t \in Tickers |-> [o \in LoadOps |-> "idle"]]
    /\ completionStatus = NoCompletion
    /\ compared = <<>>
    /\ InitDist
    /\ InitSummary

ProxyRest ==
    UNCHANGED <<mode, fundData, startDate, pc, reconciled, pcMerged, portfolioData,
                simulated, comparison, perf, called, portfolios, calls, pageVars,
                distVars, sumVars>>

\* fetchWithProxy(url) is called: the loop starts with the first proxy and
\* runs up to its first await
FetchWithProxy ==
    /\ mode = "proxy"
    /\ proxyPc = "idle"
    /\ proxyIndex' = 1
    /\ proxyPc' = "fetch"
    /\ proxyLog' = Append(proxyLog, Attempting(1))
    /\ UNCHANGED <<proxyResult, thrown>>
    /\ ProxyRest

\* the catch block (100-103) after the failure `message`: continue with the
\* next proxy up to its first await, or leave the loop and throw (106)
Failed(message) ==
    LET next == NextProxyIndex(proxyIndex)
        logged == Append(proxyLog, FailedLine(proxyIndex, message))
    IN  /\ proxyIndex' = next
        /\ IF next <= Len(PROXIES)
           THEN /\ proxyPc' = "fetch"
                /\ proxyLog' = Append(logged, Attempting(next))
                /\ UNCHANGED thrown
           ELSE /\ proxyPc' = "threw"
                /\ proxyLog' = logged
                /\ thrown' = "All proxies failed to fetch data"
        /\ UNCHANGED proxyResult
        /\ ProxyRest

\* the fetch of line 82 rejects
FetchRejected ==
    /\ proxyPc = "fetch"
    /\ Failed("network error")

\* the fetch of line 82 resolves to a response; a status that is not OK
\* throws (85-87), otherwise the body is awaited (89)
FetchResponded ==
    /\ proxyPc = "fetch"
    /\ \E ok \in BOOLEAN :
          IF ok
          THEN /\ proxyPc' = "text"
               /\ UNCHANGED <<proxyIndex, proxyLog, proxyResult, thrown>>
               /\ ProxyRest
          ELSE Failed("HTTP error")

\* response.text() settles and the rest of the try block runs (89-99)
TextRead ==
    /\ proxyPc = "text"
    /\ \E body \in Bodies(PROXIES[proxyIndex]) :
          IF body \in {"json", "wrapper"}
          THEN /\ proxyPc' = "returned"
               /\ proxyResult' = proxyIndex
               /\ UNCHANGED <<proxyIndex, proxyLog, thrown>>
               /\ ProxyRest
          ELSE Failed(IF body = "aborted" THEN "network error" ELSE "SyntaxError")

NextFetch ==
    \/ FetchWithProxy
    \/ FetchRejected
    \/ FetchResponded
    \/ TextRead

\* every request the browser has sent settles: the promises of fetch() and
\* of response.text() resolve or reject
SpecFetch == InitFetch /\ [][NextFetch]_vars /\ WF_vars(NextFetch)

\* ================================================================= claims
StrictlyIncreasing(l) == \A i \in 1..(Len(l) - 1) : l[i] < l[i + 1]

StrictlyDecreasing(l) == \A i \in 1..(Len(l) - 1) : l[i] > l[i + 1]

NoDuplicates(l) == \A i, j \in 1..Len(l) : i # j => l[i] # l[j]

\* the instrument of the single-instrument scenario
Loaded == {t \in Tickers : pc[t] # "none"}

\* the series calculateMMFPortfolio walked in the single-instrument scenario
SimInput(t) == FromStartDate(prepareTimeSeries(fundData[t].merged), startDate)

\* the series the IIFE's simulations walk: the reconciler's result, sorted
PC_SimInput(t) == SortByDate(pcMerged[t])

PC_Values(t) == IF t = "AFAXX" THEN portfolioData.mmf ELSE portfolioData[t]

UnitsCompound(points, input, start) ==
    /\ Len(points) = Len(input)
    /\ \A i \in 1..Len(points) :
          LET before == IF i = 1 THEN start ELSE points[i - 1].units
              r == input[i].distRatio
          IN  /\ RLe(before, points[i].units)
              /\ points[i].units # before => GtZero(r)
              /\ GtZero(r) => points[i].units = RAdd(before, RMul(before, r))

\* C3: in every simulated series holdingUnits never decreases, changes only
\* on a date whose reinvestRatio > 0, and there grows by exactly
\* holdingUnits_before * reinvestRatio.
C3_MonotonicUnits ==
    \A t \in Loaded :
        /\ "sim" \in called => UnitsCompound(simulated.dailyValues, SimInput(t), Num(100))
        /\ "iife" \in called =>
              UnitsCompound(PC_Values(t), PC_SimInput(t), INITIAL_HOLDINGS[t])

\* C3 witness: a simulated series whose second point carries a reinvestment
\* after a first one, so that the second increment is on the grown units
C3_Witness ==
    \E t \in Loaded :
        /\ called = {"sim", "iife"}
        /\ Len(simulated.dailyValues) >= 2
        /\ GtZero(SimInput(t)[1].distRatio)
        /\ GtZero(SimInput(t)[2].distRatio)
        /\ simulated.dailyValues[2].units = Num(225)
        /\ Len(PC_Values(t)) >= 2

NavDates(t) == DateSet(fundData[t].nav)

DistDates(t) == DateSet(fundData[t].distributions)

\* the distribution record of a date (the series has one record per date)
DistRecord(t, d) ==
    CHOOSE r \in Range(fundData[t].distributions) : r.date = d

\* C7 as stated: the dates of the reconciled series handed to the
\* simulation (fundData[ticker].merged on the page, the reconciler's result
\* in the IIFE) are the union of the NAV dates and the distribution dates.
C7_DatesAreUnion ==
    \A t \in Loaded :
        Len(fundData[t].nav) > 0 =>
            /\ pc[t] = "merged" =>
                  DateSet(fundData[t].merged) = NavDates(t) \cup DistDates(t)
            /\ "iife" \in called =>
                  DateSet(pcMerged[t]) = NavDates(t) \cup DistDates(t)

\* the nav the claim expects on a date of a non-fixed-NAV instrument
ExpectedNav(t, d) ==
    IF d \in NavDates(t) THEN NavByDate(fundData[t].nav, d) ELSE DistRecord(t, d).nav

\* C8 as stated: for a non-fixed-NAV instrument the reconciled point of a
\* date takes the NAV-series value when the NAV series has the date, and
\* the distribution record's own nav otherwise.
C8_NavFallback ==
    \A t \in Loaded \ {"AFAXX"} :
        /\ \A i \in 1..Len(reconciled[t]) :
              reconciled[t][i].nav = ExpectedNav(t, reconciled[t][i].date)
        /\ \A i \in 1..Len(pcMerged[t]) :
              pcMerged[t][i].nav = ExpectedNav(t, pcMerged[t][i].date)

\* distribution / navAtDistribution of the date's record, 0 without one
ExpectedRatio(t, d) ==
    IF d \in DistDates(t) THEN RDiv(DistRecord(t, d).dist, DistRecord(t, d).nav)
    ELSE Num(0)

RatiosAsExpected(t, series) ==
    \A i \in 1..Len(series) : series[i].distRatio = ExpectedRatio(t, series[i].date)

\* C9: on every date of a reconciled series reinvestRatio is distribution /
\* navAtDistribution of that date's distribution record, 0 when the date
\* has none; without any distribution event every simulated point holds
\* the starting units.
C9_ReinvestRatio ==
    \A t \in Loaded :
        /\ RatiosAsExpected(t, reconciled[t])
        /\ RatiosAsExpected(t, fundData[t].merged)
        /\ RatiosAsExpected(t, pcMerged[t])
        /\ fundData[t].distributions = <<>> =>
              /\ \A i \in 1..Len(simulated.dailyValues) :
                    simulated.dailyValues[i].units = Num(100)
              /\ \A i \in 1..Len(PC_Values(t)) :
                    PC_Values(t)[i].units = INITIAL_HOLDINGS[t]

\* C9 witness: both reconcilers have run on a date that has a distribution
\* record (reinvested at 12) and a NAV-series price other than 12
C9_Witness ==
    \E t \in Loaded :
        /\ called = {"sim", "iife"}
        /\ \E i \in 1..Len(reconciled[t]), j \in 1..Len(pcMerged[t]) :
              /\ reconciled[t][i].date \in NavDates(t) \cap DistDates(t)
              /\ reconciled[t][i].distRatio = <<1, 2>>
              /\ pcMerged[t][j].date = reconciled[t][i].date
              /\ pcMerged[t][j].nav # Num(12)
              /\ pcMerged[t][j].distRatio = <<1, 2>>

AllNavOne(series) == \A i \in 1..Len(series) : series[i].nav = Num(1)

MinOf(S) == CHOOSE x \in S : \A y \in S : x <= y

MMFValues == portfolios.mmfPortfolio.dailyValues

MFValues == portfolios.mutualFundsPortfolio.dailyValues

\* the dates on which both portfolios of the comparison have a value
CommonDates == DateSet(MMFValues) \cap DateSet(MFValues)

C6_StartsAtFirstCommonDate ==
    ("cmp" \in called /\ CommonDates # {}) =>
        /\ Len(comparison.dailyValues) >= 1
        /\ comparison.dailyValues[1].date = MinOf(CommonDates)
        /\ \A i \in 1..Len(comparison.dailyValues) :
              comparison.dailyValues[i].date >= MinOf(CommonDates)

\* C6 witness: one portfolio has a value on a day before the first common
\* date, and there are two common dates
C6_Witness ==
    /\ "cmp" \in called
    /\ Cardinality(CommonDates) >= 2
    /\ \E d \in (DateSet(MMFValues) \cup DateSet(MFValues)) \ CommonDates :
          d < MinOf(CommonDates)
    /\ Len(comparison.dailyValues) = Cardinality(CommonDates)

\* the contribution of an instrument on every day it has no observation of
\* its own but had an earlier one in the series equals its contribution on
\* the most recent such earlier day; `dates` and `contribution` are the
\* dates of the aggregated points and the instrument's share of each,
\* `observed` the days the instrument has a record of its own
ForwardFilled(dates, contribution, observed) ==
    \A i \in 1..Len(dates) :
        LET prior == {j \in 1..(i - 1) : dates[j] \in observed}
        IN  (dates[i] \notin observed /\ prior # {}) =>
                contribution[i] = contribution[CHOOSE j \in prior : \A k \in prior : k <= j]

\* forward-fill in the portfolio calculateMutualFundsPortfolio returns
ForwardFilledComparison ==
    /\ ForwardFilled(DatesOf(MFValues), [i \in 1..Len(MFValues) |-> MFValues[i].agthxValue],
                     DateSet(fundData["AGTHX"].merged))
    /\ ForwardFilled(DatesOf(MFValues), [i \in 1..Len(MFValues) |-> MFValues[i].ancfxValue],
                     DateSet(fundData["ANCFX"].merged))

\* forward-fill in portfolio2Values of calculatePortfolioPerformance
ForwardFilledPerformance ==
    LET p2 == perf.portfolio2Values
    IN  /\ ForwardFilled(DatesOf(p2), [i \in 1..Len(p2) |-> p2[i].valueAGTHX],
                         DateSet(fundData["AGTHX"].merged))
        /\ ForwardFilled(DatesOf(p2), [i \in 1..Len(p2) |-> p2[i].valueANCFX],
                         DateSet(fundData["ANCFX"].merged))

\* C2 as stated: in every aggregated portfolio series an instrument
\* without an observation on a date contributes its most recent prior
\* observed value (never 0).
C2_ForwardFill ==
    /\ ForwardFilledComparison
    /\ ForwardFilledPerformance

RECURSIVE UnitsAfter(_, _, _)
\* the units held after the reinvestments of the first i points of a series
UnitsAfter(series, start, i) ==
    IF i = 0 THEN start
    ELSE LET before == UnitsAfter(series, start, i - 1)
             r == series[i].distRatio
         IN  IF GtZero(r) THEN RMul(before, RAdd(Num(1), r)) ELSE before

\* value(d) = units_after_reinvestment(d) * nav(d) along `input`
ValuedAfterReinvestment(points, input, start) ==
    /\ Len(points) = Len(input)
    /\ \A i \in 1..Len(points) :
          points[i].value = RMul(UnitsAfter(input, start, i), input[i].nav)

\* the AFAXX series each simulation of the comparison scenario walks
CmpAfaxxInput == FromStartDate(prepareTimeSeries(fundData["AFAXX"].merged), startDate)

ValuedAfterReinvestmentComparison ==
    "cmp" \in called =>
        ValuedAfterReinvestment(MMFValues, CmpAfaxxInput, InputConfig(startDate).mmf.units)

ValuedAfterReinvestmentPerformance ==
    "perf" \in called =>
        ValuedAfterReinvestment(perf.portfolio1Values, SortByDate(fundData["AFAXX"].merged),
                                PerfHoldings.AFAXX)

\* C4 as stated: on every date of a simulated series the reinvestment of
\* the date is applied before the date is valued.
C4_ReinvestBeforeValue ==
    /\ ValuedAfterReinvestmentComparison
    /\ ValuedAfterReinvestmentPerformance

\* ------------------------------------------------- claims on error reports
\* the dates from startDate on that the reconciler returned without a nav
UnpricedDates(t) ==
    {reconciled[t][i].date : i \in {j \in 1..Len(reconciled[t]) :
                                        /\ reconciled[t][j].nav = Null
                                        /\ reconciled[t][j].date >= startDate}}

\* C11 as stated: when the reconciled series of an instrument has a date
\* from startDate on without a nav, simulating the instrument reports a
\* MissingPriceData error; the date is not dropped from the series.
C11_MissingPriceReported ==
    \A t \in Loaded :
        ("sim" \in called /\ UnpricedDates(t) # {}) => thrown = "MissingPriceData"

\* C13 as stated: when no point of the reconciled series has a date from
\* startDate on, simulating fails with an EmptyWindow error instead of
\* returning a portfolio without daily values.
C13_EmptyWindowReported ==
    \A t \in Loaded :
        ("sim" \in called /\ pc[t] = "merged" /\ SimInput(t) = <<>>)
            => thrown = "EmptyWindow"

\* C14 as stated: when the two portfolios of the comparison have no date
\* in common, the comparison reports an InsufficientAlignment error
\* instead of returning a result with an empty aligned series.
C14_InsufficientAlignmentReported ==
    ("cmp" \in called /\ CommonDates = {}) => thrown = "InsufficientAlignment"

\* --------------------------------------------------- claims on the summary
\* the summary of a portfolio of one daily point reports the number 0 as
\* volatility and as annualized return
OnePointSummaryZero(dailyValues, summary) ==
    Len(dailyValues) = 1 =>
        /\ VolatilityIsZero(summary.volatility)
        /\ summary.annualizedReturn = ZeroReturn

\* C15 as stated: for a portfolio whose daily series has exactly one point
\* the summary reports annualized volatility 0 and annualized return 0,
\* not NaN.
C15_OnePointSummaryZero ==
    "cmp" \in called =>
        /\ OnePointSummaryZero(MMFValues, comparison.mmfPortfolio)
        /\ OnePointSummaryZero(MFValues, comparison.mutualFundsPortfolio)

\* ------------------------------------------- claims on the IIFE's aggregation
\* the distribution records of the current input whose reinvestment price
\* is zero or missing
InvalidDistributions(t) ==
    {i \in 1..Len(fundData[t].distributions) :
        ~Truthy(fundData[t].distributions[i].nav)}

\* C12 as stated: reconciling a distribution whose navAtDistribution is
\* zero or missing yields an InvalidDistributionRatio error; the ratio is
\* not left infinite (or coerced to 0) in the reconciled series.
C12_InvalidRatioReported ==
    \A t \in Tickers :
        (calls > 0 /\ Len(fundData[t].nav) > 0 /\ InvalidDistributions(t) # {})
            => thrown = "InvalidDistributionRatio"

\* C16: after any sequence of earlier calls, calculatePortfolios(x) leaves
\* and returns in portfolioData exactly what a first call with the same x
\* returns; nothing of an earlier call remains.
C16_NoStateAcrossCalls ==
    calls > 0 => portfolioData = PC_calculatePortfolios(EmptyPortfolioData, fundData)

\* C16 witness: a second call whose input has no ANCFX data has returned,
\* with AGTHX simulated and nothing for ANCFX or the combined portfolio
C16_Witness ==
    /\ calls = 2
    /\ fundData["ANCFX"].nav = <<>>
    /\ Len(portfolioData.AGTHX) = MaxAggDate
    /\ portfolioData.ANCFX = <<>>
    /\ portfolioData.combined = <<>>

\* the combined series has the dates and the values of the series `own`
SameSeries(combined, own) ==
    /\ DatesOf(combined) = DatesOf(own)
    /\ \A i \in 1..Len(own) : combined[i].value = own[i].value

\* C18 as stated: aggregating a portfolio of a single instrument gives the
\* instrument's own series (same dates, totalValue = its value), not an
\* empty series.
C18_SingleInstrumentIdentity ==
    calls > 0 =>
        /\ (fundData["ANCFX"].nav = <<>> /\ fundData["AGTHX"].nav # <<>>)
               => SameSeries(portfolioData.combined, portfolioData.AGTHX)
        /\ (fundData["AGTHX"].nav = <<>> /\ fundData["ANCFX"].nav # <<>>)
               => SameSeries(portfolioData.combined, portfolioData.ANCFX)

\* ----------------------------------------------- claims on input order
\* the orders in which the records of a series can be handed over
Reorderings(s) ==
    {[i \in 1..Len(s) |-> s[p[i]]] : p \in Permutations(1..Len(s))}

\* both reconcilers (which are called only when NAV records were loaded)
\* and all simulations have run on the instrument
AllRun(t) ==
    /\ pc[t] = "merged"
    /\ called = {"sim", "iife"}
    /\ fundData[t].nav # <<>>

\* the page's reconciler returns for the NAV records n and the distribution
\* records d what it returned for the instrument
SamePageResult(t, n, d) == mergeNavAndDistributions(n, d, t) = reconciled[t]

C17_ComparisonAfterAllMerged ==
    \A i \in 1..Len(compared) :
        \A t \in Tickers : compared[i][t] = fundData[t]

\* ------------------------------------ claims on the distribution processor
\* C20 as stated: the items a request for distribution data returns are
\* sorted chronologically, oldest first, whatever the order of the rows in
\* the data file, and the date of every item lies within
\* [startDate, endDate].
C20_ItemsSortedWithinRange ==
    called # {} =>
        /\ StrictlyIncreasing(DatesOf(distResult.items))
        /\ \A i \in 1..Len(distResult.items) :
              /\ distResult.items[i].date >= startDate
              /\ distResult.items[i].date <= endDate

\* the request was faulty: one of the faults, or a start date after the end
\* date
FaultyRequest == fault # "none" \/ startDate > endDate

\* C21 as stated: every request for distribution data ends in a resolved
\* promise, never in a rejection, an exception or a plain return value, and
\* a faulty request (invalid ticker, unreadable start or end date, start
\* after end, missing data file, malformed row) resolves to an object with
\* an error property and no distribution items.
C21_ResolvesWithError ==
    called # {} =>
        /\ settled = "resolved"
        /\ FaultyRequest => (distResult.error # "none" /\ distResult.items = <<>>)

\* ------------------------------------- claims on the comparison (continued)
\* the index of `value` against the value `base` of the first common date
IndexOf(value, base) == RMul(RDiv(value, base), Num(100))

\* C22: every point of the aligned series carries the two portfolios'
\* values of its date, indexA = valueA / valueA(firstCommonDate) * 100,
\* indexB = valueB / valueB(firstCommonDate) * 100 and
\* indexDifference = indexB - indexA; first-common totals 1000 and 2000 and
\* later totals 1100 and 2300 give 110, 115 and 5.
C22_IndexFormula ==
    /\ LET point == ComparisonPoint(2, [value |-> Num(1100)], [value |-> Num(2300)],
                                    Num(1000), Num(2000))
       IN  /\ point.p1Index = Num(110)
           /\ point.p2Index = Num(115)
           /\ point.difference = Num(5)
    /\ ("cmp" \in called /\ CommonDates # {}) =>
          LET first == MinOf(CommonDates)
              baseA == ItemAt(MMFValues, first).value
              baseB == ItemAt(MFValues, first).value
          IN  \A i \in 1..Len(comparison.dailyValues) :
                LET point == comparison.dailyValues[i]
                IN  /\ point.p1Value = ItemAt(MMFValues, point.date).value
                    /\ point.p2Value = ItemAt(MFValues, point.date).value
                    /\ point.p1Index = IndexOf(point.p1Value, baseA)
                    /\ point.p2Index = IndexOf(point.p2Value, baseB)
                    /\ point.difference = RSub(point.p2Index, point.p1Index)

\* C22 witness: an aligned point after the first common date on which the
\* second portfolio has outperformed the first, so the difference is positive
C22_Witness ==
    /\ "cmp" \in called
    /\ \E i \in 2..Len(comparison.dailyValues) :
          /\ comparison.dailyValues[i].p1Index # Num(100)
          /\ RLt(comparison.dailyValues[i].p1Index, comparison.dailyValues[i].p2Index)
          /\ RLt(Num(0), comparison.dailyValues[i].difference)

\* ------------------------------------ claims on the aggregation (continued)
\* on every date before the first day the instrument has a record of its
\* own (`observed`, not empty), its contribution is the number 0
ZeroBeforeFirstObservation(dates, contribution, observed) ==
    \A i \in 1..Len(dates) :
        (observed # {} /\ \A d \in observed : dates[i] < d) => contribution[i] = Num(0)

\* the days from startDate on for which the merged series of t has a point
ObservedFromStart(t) == {d \in DateSet(fundData[t].merged) : d >= startDate}

\* C23 as stated: on every date of the aggregated series that precedes an
\* instrument's first observation, the instrument contributes 0 to the
\* total; its first later observation is not carried back.
C23_ZeroBeforeFirstObservation ==
    "cmp" \in called =>
        /\ ZeroBeforeFirstObservation(DatesOf(MFValues),
                                      [i \in 1..Len(MFValues) |-> MFValues[i].agthxValue],
                                      ObservedFromStart("AGTHX"))
        /\ ZeroBeforeFirstObservation(DatesOf(MFValues),
                                      [i \in 1..Len(MFValues) |-> MFValues[i].ancfxValue],
                                      ObservedFromStart("ANCFX"))

\* the series has one point per date of `union`, oldest first, and the
\* value of every point is the sum of the two component values on it
OnePointPerDateSummed(series, union) ==
    /\ StrictlyIncreasing(DatesOf(series))
    /\ DateSet(series) = union
    /\ \A i \in 1..Len(series) :
          series[i].value = RAdd(series[i].agthxValue, series[i].ancfxValue)

\* C24 as stated: the aggregated series has exactly one point per date in
\* the union of the component dates, in ascending order, and the total of
\* every point is the sum of the component values recorded on it.
C24_OnePointPerUnionDate ==
    "cmp" \in called =>
        OnePointPerDateSummed(MFValues,
                              ObservedFromStart("AGTHX") \cup ObservedFromStart("ANCFX"))

\* the same property where both components have a point from startDate on
SummedWhereBothObserved ==
    ("cmp" \in called /\ ObservedFromStart("AGTHX") # {} /\ ObservedFromStart("ANCFX") # {})
        => OnePointPerDateSummed(MFValues,
                                 ObservedFromStart("AGTHX") \cup ObservedFromStart("ANCFX"))

\* ----------------------------------------------- claims on the summaries
\* the summary carries the values of the first and the last point of the
\* series and the change between them in percent of the first
SummaryOfOwnSeries(summary, series) ==
    LET first == series[1].value
        last == series[Len(series)].value
    IN  series # <<>> =>
            /\ summary.initialValue = first
            /\ summary.currentValue = last
            /\ summary.changePercent = RMul(RDiv(RSub(last, first), first), Num(100))

\* C25: each summary of the comparison is computed over the portfolio's own
\* full daily series, dates before the first common date included:
\* initialValue and currentValue are the values of its first and last daily
\* points and percentChange = (last - first) / first * 100.
C25_SummaryOverOwnSeries ==
    "cmp" \in called =>
        /\ SummaryOfOwnSeries(comparison.mmfPortfolio, MMFValues)
        /\ SummaryOfOwnSeries(comparison.mutualFundsPortfolio, MFValues)

\* C25 witness: the MMF portfolio has a point before the first common
\* date, its value there differs from its value on the first common date,
\* and the summary starts from the earlier one
C25_Witness ==
    /\ "cmp" \in called
    /\ CommonDates # {}
    /\ MMFValues[1].date < MinOf(CommonDates)
    /\ MMFValues[1].value # comparison.dailyValues[1].p1Value
    /\ comparison.mmfPortfolio.initialValue = MMFValues[1].value
    /\ comparison.mmfPortfolio.changePercent # Num(0)

\* the days between the first and the last daily value of the portfolio
\* summarized
ElapsedDays ==
    summarized.dailyValues[Len(summarized.dailyValues)].date - summarized.dailyValues[1].date

SummarizedValues ==
    {summarized.dailyValues[i].value : i \in 1..Len(summarized.dailyValues)}

\* the date of the first point of the portfolio summarized that has the value v
FirstDateOf(v) ==
    LET dv == summarized.dailyValues
        i == CHOOSE j \in 1..Len(dv) :
                 dv[j].value = v /\ \A k \in 1..(j - 1) : dv[k].value # v
    IN  dv[i].date

\* C27 as stated: for every non-empty daily series, minValue and maxValue
\* are the least and the greatest of all daily values, and minDate /
\* maxDate are the dates of the first point, in series order, that attains
\* them.
C27_ExtremesFirstOccurrence ==
    ("sum" \in called /\ summarized.dailyValues # <<>>) =>
        /\ portfolioSummary.minValue \in SummarizedValues
        /\ portfolioSummary.maxValue \in SummarizedValues
        /\ \A v \in SummarizedValues :
              /\ ~RLt(v, portfolioSummary.minValue)
              /\ ~RLt(portfolioSummary.maxValue, v)
        /\ portfolioSummary.minDate = FirstDateOf(portfolioSummary.minValue)
        /\ portfolioSummary.maxDate = FirstDateOf(portfolioSummary.maxValue)

\* ------------------------------------------------- claims on fetchWithProxy
\* the proxies contacted so far, in the order of their console lines
RECURSIVE Contacted(_)
Contacted(log) ==
    IF log = <<>> THEN <<>>
    ELSE LET before == Contacted(SubSeq(log, 1, Len(log) - 1))
             last == log[Len(log)]
         IN  IF last.line = "attempting" THEN Append(before, last.proxy) ELSE before

\* the proxies that have failed so far
FailedProxies(log) == {log[i].proxy : i \in {j \in 1..Len(log) : log[j].line # "attempting"}}

\* the proxies are contacted in list order, each at most once, each only
\* after the one before it was logged as failed; a returned body is that of
\* the last proxy contacted; the error is thrown only after all have failed
OrderedAttempts ==
    LET contacted == Contacted(proxyLog)
    IN  /\ Len(contacted) <= Len(PROXIES)
        /\ \A i \in 1..Len(contacted) : contacted[i] = i
        /\ \A j \in 1..Len(proxyLog) :
              (proxyLog[j].line = "attempting" /\ proxyLog[j].proxy > 1) =>
                  /\ proxyLog[j - 1].line # "attempting"
                  /\ proxyLog[j - 1].proxy = proxyLog[j].proxy - 1
        /\ FailedProxies(proxyLog) \subseteq 1..Len(contacted)
        /\ proxyPc = "returned" =>
              /\ proxyResult = Len(contacted)
              /\ FailedProxies(proxyLog) = 1..(proxyResult - 1)
        /\ proxyPc = "threw" =>
              /\ Len(contacted) = Len(PROXIES)
              /\ FailedProxies(proxyLog) = 1..Len(PROXIES)
              /\ thrown = "All proxies failed to fetch data"
        /\ proxyPc # "threw" => thrown = "none"

\* C28: fetchWithProxy contacts the proxies in list order, proxy i only
\* after every proxy before it has failed, returns the first body it could
\* parse without contacting a later proxy, throws 'All proxies failed to
\* fetch data' only after each of the 4 proxies was contacted once and
\* failed, and always ends after at most 4 attempts.
C28_ProxiesInOrderUntilSuccess ==
    /\ [](Len(PROXIES) = 4 /\ OrderedAttempts)
    /\ <>(proxyPc \in {"returned", "threw"})

\* C28 witness: the third proxy's body was returned after a network error
\* of the first proxy and a non-OK status of the second
C28_Witness ==
    /\ proxyPc = "returned"
    /\ proxyResult = 3
    /\ proxyLog = <<Attempting(1), FailedLine(1, "network error"),
                    Attempting(2), FailedLine(2, "HTTP error"), Attempting(3)>>

\* ------------------------------------------- claims on the load protocol
\* the load operations whose callback has run
SettledLoads ==
    {x \in Tickers \X LoadOps : loads[x[1]][x[2]] \in {"done", "failed", "reported"}}

\* C29: in every interleaving of the load callbacks, each of the 6 load
\* operations increments completionStatus.completed exactly once, whether
\* it succeeds or fails, so completed never exceeds total and
\* processAllCompletedData is started at most once.
C29_CountedOncePerLoad ==
    /\ CompletionTotal = 6
    /\ completionStatus.completed = Cardinality(SettledLoads)
    /\ completionStatus.completed <= CompletionTotal
    /\ Len(compared) <= 1
    /\ Len(compared) = 1 => completionStatus.completed = CompletionTotal

\* C29 witness: all six callbacks have run, a NAV fetch among them was
\* rejected, and the counter stands at 6 without a comparison
C29_Witness ==
    /\ completionStatus.completed = 6
    /\ \E t \in Tickers : loads[t]["nav"] = "failed"
    /\ \E t \in Tickers : loads[t]["distributions"] = "done"
    /\ compared = <<>>

\* C30 as stated: the comparison is computed only if none of the six load
\* operations failed; a rejected NAV fetch, a rejected distribution fetch
\* or a distribution result carrying an error property keeps it from being
\* computed with that fund's data defaulted to empty.
C30_NoComparisonAfterFailure ==
    compared # <<>> =>
        \A t \in Tickers, o \in LoadOps : loads[t][o] \notin {"failed", "reported"}

====
